---------------------------- MODULE Spec2Model ----------------------------
(***************************************************************************)
(* Model of the structured query compiler: a schema declaration is         *)
(* flattened into path lists (generateSchemaPaths), and compile() turns a  *)
(* request (populate paths, root fields, sort options, key names) into a   *)
(* nested query object through filterValidPaths, TreeProcessor.process,    *)
(* compileSortOptions and convertTreeToQuery.                              *)
(*                                                                         *)
(* Encoding of the JavaScript values:                                      *)
(*  - a string that the code splits, joins or trims is a sequence of       *)
(*    one-character strings, so "p.b" is <<"p", ".", "b">>;                *)
(*  - an array is a sequence; a Set is a duplicate-free sequence in        *)
(*    insertion order; an object (Record) is a sequence of [k, v] entries  *)
(*    in insertion order;                                                  *)
(*  - the tree (Map<string, TreeNode> with nested Maps) is kept as the     *)
(*    ordered list of root keys plus a table from a node's position (the   *)
(*    keys leading to it from the root) to the node;                       *)
(*  - a value that may be null or undefined is Absent or Present(v); an    *)
(*    optional property of a request or schema is a record field that is   *)
(*    in the record's DOMAIN or not.                                       *)
(***************************************************************************)
EXTENDS Naturals, Sequences, FiniteSets, TLC

\* ------------------------------------------------------------------
\* Program constants
\* ------------------------------------------------------------------

PATH_SEPARATOR == "."

DEFAULT_INCLUDE_KEY == "include"

DEFAULT_SELECT_KEY == "select"

DEFAULT_SORT_KEY == "orderBy"

SortDirection == [ASC |-> "asc", DESC |-> "desc"]

DEFAULT_SORT_DIRECTION == SortDirection.ASC

\* An optional value (null, undefined or a missing property against a value)
Absent == [present |-> FALSE]

Present(value) == [present |-> TRUE, value |-> value]

\* ------------------------------------------------------------------
\* Strings, arrays, Sets and objects of the host language
\* ------------------------------------------------------------------

Range(seq) == {seq[k] : k \in DOMAIN seq}

\* Array.prototype.includes / String.prototype.includes (one character)
includes(arr, x) == \E k \in DOMAIN arr : arr[k] = x

\* String.prototype.split(sep) for a one-character separator
RECURSIVE split(_, _)
split(str, sep) ==
    IF includes(str, sep)
    THEN LET k == CHOOSE k \in DOMAIN str :
                      str[k] = sep /\ \A m \in 1..(k - 1) : str[m] # sep
         IN  <<SubSeq(str, 1, k - 1)>> \o split(SubSeq(str, k + 1, Len(str)), sep)
    ELSE <<str>>

\* Array.prototype.join(sep)
RECURSIVE join(_, _)
join(parts, sep) ==
    IF Len(parts) = 0 THEN <<>>
    ELSE IF Len(parts) = 1 THEN parts[1]
    ELSE parts[1] \o <<sep>> \o join(Tail(parts), sep)

\* String.prototype.trim
RECURSIVE trim(_)
trim(str) ==
    IF Len(str) > 0 /\ str[1] = " " THEN trim(Tail(str))
    ELSE IF Len(str) > 0 /\ str[Len(str)] = " " THEN trim(SubSeq(str, 1, Len(str) - 1))
    ELSE str

\* String.prototype.startsWith
startsWith(str, prefix) ==
    Len(prefix) <= Len(str) /\ SubSeq(str, 1, Len(prefix)) = prefix

\* String.prototype.substring(from) (zero-based from)
substring(str, from) == SubSeq(str, from + 1, Len(str))

\* Array.prototype.slice(0, end)
slice0(arr, end) == SubSeq(arr, 1, end)

\* a new element is put in front of the ones already there
SetAddFront(set, x) == IF includes(set, x) THEN set ELSE <<x>> \o set

\* Set.prototype.add on an insertion-ordered Set
SetAdd(set, x) == IF includes(set, x) THEN set ELSE Append(set, x)

\* [...new Set(arr)]: first occurrences, in order
RECURSIVE dedupe(_)
\* the list as it is, repeated entries included
keepAll(arr) == arr

dedupe(arr) ==
    IF Len(arr) = 0 THEN <<>>
    ELSE LET init == dedupe(SubSeq(arr, 1, Len(arr) - 1))
         IN  SetAdd(init, arr[Len(arr)])

\* Objects: insertion-ordered entries
ObjKeys(obj) == [k \in DOMAIN obj |-> obj[k].k]

ObjHas(obj, key) == \E k \in DOMAIN obj : obj[k].k = key

ObjGet(obj, key) == obj[CHOOSE k \in DOMAIN obj : obj[k].k = key].v

\* obj[key] = value: an existing key keeps its place
ObjSet(obj, key, value) ==
    IF ObjHas(obj, key)
    THEN [k \in DOMAIN obj |-> IF obj[k].k = key THEN [k |-> key, v |-> value] ELSE obj[k]]
    ELSE Append(obj, [k |-> key, v |-> value])

\* { ...a, ...b }
RECURSIVE Spread(_, _)
Spread(a, b) ==
    IF Len(b) = 0 THEN a
    ELSE Spread(ObjSet(a, b[1].k, b[1].v), Tail(b))

\* ------------------------------------------------------------------
\* Schema declarations and the path index
\* ------------------------------------------------------------------

\* for (const relation in schema.populate) { ... }: one relation of the walk
RECURSIVE generateSchemaPaths(_, _)
RECURSIVE walkRelations(_, _, _, _)
walkRelations(rels, parentPath, k, result) ==
    IF k > Len(rels) THEN result
    ELSE LET relation == rels[k].name
             relationPath == IF parentPath # <<>>
                             THEN parentPath \o <<PATH_SEPARATOR>> \o relation
                             ELSE relation
             relationSchema == rels[k].schema
             fieldPaths == IF "selectableFields" \in DOMAIN relationSchema
                           THEN [f \in DOMAIN relationSchema.selectableFields |->
                                   relationPath \o <<PATH_SEPARATOR>>
                                       \o relationSchema.selectableFields[f]]
                           ELSE <<>>
             subPaths == generateSchemaPaths(relationSchema, relationPath)
         IN  walkRelations(rels, parentPath, k + 1,
                 [rootFields |-> result.rootFields,
                  relationKeys |-> result.relationKeys \o <<relationPath>>
                                       \o subPaths.relationKeys,
                  relationFields |-> result.relationFields \o fieldPaths
                                       \o subPaths.relationFields])

generateSchemaPaths(schema, parentPath) ==
    LET rootFields == IF parentPath = <<>> /\ "selectableFields" \in DOMAIN schema
                      THEN schema.selectableFields
                      ELSE <<>>
        start == [rootFields |-> rootFields, relationKeys |-> <<>>, relationFields |-> <<>>]
        result == IF "populate" \in DOMAIN schema
                  THEN walkRelations(schema.populate, parentPath, 1, start)
                  ELSE start
    IN  [rootFields |-> dedupe(result.rootFields),
         relationKeys |-> dedupe(result.relationKeys),
         relationFields |-> dedupe(result.relationFields)]

\* root.sortable: the declared sortableFields, else the selectable fields
rootSortable(schema) ==
    IF "sortableFields" \in DOMAIN schema THEN dedupe(schema.sortableFields)
    ELSE IF "selectableFields" \in DOMAIN schema THEN dedupe(schema.selectableFields)
    ELSE <<>>

\* relations.sortable: path.field for each relation's sortable fields
RECURSIVE relationsSortable(_, _)
RECURSIVE walkSortable(_, _, _, _)
walkSortable(rels, parentPath, k, acc) ==
    IF k > Len(rels) THEN acc
    ELSE LET relationPath == IF parentPath # <<>>
                             THEN parentPath \o <<PATH_SEPARATOR>> \o rels[k].name
                             ELSE rels[k].name
             own == rootSortable(rels[k].schema)
             paths == [f \in DOMAIN own |-> relationPath \o <<PATH_SEPARATOR>> \o own[f]]
         IN  walkSortable(rels, parentPath, k + 1,
                 acc \o paths \o relationsSortable(rels[k].schema, relationPath))

relationsSortable(schema, parentPath) ==
    IF "populate" \in DOMAIN schema
    THEN dedupe(walkSortable(schema.populate, parentPath, 1, <<>>))
    ELSE <<>>

\* The index the compiler keeps: SchemaPaths { root, relations }
buildSchemaPaths(schema) ==
    LET flat == generateSchemaPaths(schema, <<>>)
    IN  [root |-> [selectable |-> flat.rootFields,
                   sortable |-> rootSortable(schema)],
         relations |-> [keys |-> flat.relationKeys,
                        selectable |-> flat.relationFields,
                        sortable |-> relationsSortable(schema, <<>>)]]

\* ------------------------------------------------------------------
\* Schemas the compiler is bound to
\* ------------------------------------------------------------------

\* root fields i, n (only n sortable); profile p with fields i, b (only i
\* sortable) and nested relation s; tags t with field n
SchemaPlain ==
    [selectableFields |-> << <<"i">>, <<"n">> >>,
     sortableFields |-> << <<"n">> >>,
     populate |-> <<
        [name |-> <<"p">>,
         schema |-> [selectableFields |-> << <<"i">>, <<"b">> >>,
                     sortableFields |-> << <<"i">> >>,
                     populate |-> <<
                        [name |-> <<"s">>,
                         schema |-> [selectableFields |-> << <<"i">> >>]] >>]],
        [name |-> <<"t">>,
         schema |-> [selectableFields |-> << <<"n">> >>]] >>]

\* no root sortableFields; in p the name a is both a field and a relation;
\* relation t declares no fields at all
SchemaOdd ==
    [selectableFields |-> << <<"i">>, <<"n">> >>,
     populate |-> <<
        [name |-> <<"p">>,
         schema |-> [selectableFields |-> << <<"a">>, <<"b">> >>,
                     populate |-> <<
                        [name |-> <<"a">>,
                         schema |-> [selectableFields |-> << <<"i">> >>,
                                     populate |-> <<
                                        [name |-> <<"s">>,
                                         schema |-> [selectableFields |-> << <<"i">> >>]] >>]] >>]],
        [name |-> <<"t">>, schema |-> [populate |-> <<>>]] >>]

Schemas == {SchemaPlain, SchemaOdd}

\* ------------------------------------------------------------------
\* TreeProcessor
\* ------------------------------------------------------------------

EmptyTree == [keys |-> <<>>, nodes |-> <<>>]

\* the node is labelled with its own segment instead of the path from the root
createNodeOfLastSegment(path) ==
    LET parts == split(path, PATH_SEPARATOR)
    IN  [path |-> parts[Len(parts)], fields |-> <<>>, relations |-> <<>>, metadata |-> Absent]

createNode(path) ==
    [path |-> path, fields |-> <<>>, relations |-> <<>>, metadata |-> Absent]

\* tree.has(rootKey) / currentNode.relations.has(part), by position
hasNode(tree, pos) ==
    IF Len(pos) = 1 THEN includes(tree.keys, pos[1])
    ELSE /\ slice0(pos, Len(pos) - 1) \in DOMAIN tree.nodes
         /\ includes(tree.nodes[slice0(pos, Len(pos) - 1)].relations, pos[Len(pos)])

\* tree.set(rootKey, node) / currentNode.relations.set(part, node)
setNode(tree, pos, node) ==
    IF Len(pos) = 1
    THEN [keys |-> SetAdd(tree.keys, pos[1]), nodes |-> (pos :> node) @@ tree.nodes]
    ELSE LET parent == slice0(pos, Len(pos) - 1)
         IN  [keys |-> tree.keys,
              nodes |-> (pos :> node) @@
                        [tree.nodes EXCEPT ![parent].relations = SetAdd(@, pos[Len(pos)])]]

\* Step 1, one populate path
identifyExplicitField(schemaPaths, relationsWithExplicitFields, param) ==
    IF ~includes(param, PATH_SEPARATOR) THEN relationsWithExplicitFields
    ELSE LET parts == split(param, PATH_SEPARATOR)
             fieldName == parts[Len(parts)]
             relationPath == join(slice0(parts, Len(parts) - 1), PATH_SEPARATOR)
         IN  IF fieldName = <<>> THEN relationsWithExplicitFields
             ELSE IF includes(schemaPaths.relations.selectable, param)
             THEN IF relationPath \in DOMAIN relationsWithExplicitFields
                  THEN [relationsWithExplicitFields EXCEPT ![relationPath] = SetAdd(@, fieldName)]
                  ELSE (relationPath :> <<fieldName>>) @@ relationsWithExplicitFields
             ELSE relationsWithExplicitFields

RECURSIVE identifyExplicitFieldsFrom(_, _, _, _)
identifyExplicitFieldsFrom(schemaPaths, populatePaths, k, acc) ==
    IF k > Len(populatePaths) THEN acc
    ELSE identifyExplicitFieldsFrom(schemaPaths, populatePaths, k + 1,
             identifyExplicitField(schemaPaths, acc, populatePaths[k]))

identifyExplicitFields(populatePaths, schemaPaths) ==
    identifyExplicitFieldsFrom(schemaPaths, populatePaths, 1, <<>>)

\* the last part of a path is taken as a relation like the parts before it
RECURSIVE constructPartsAsRelations(_, _, _, _, _, _)
constructPartsAsRelations(schemaPaths, tree, parts, k, cur, currentPath) ==
    IF k > Len(parts) THEN tree
    ELSE LET part == parts[k]
             path == currentPath \o <<PATH_SEPARATOR>> \o part
             child == cur \o <<part>>
         IN  IF part = <<>>
             THEN constructPartsAsRelations(schemaPaths, tree, parts, k + 1, cur, currentPath)
             ELSE constructPartsAsRelations(schemaPaths,
                      IF ~hasNode(tree, child) THEN setNode(tree, child, createNode(path))
                      ELSE tree,
                      parts, k + 1, child, path)

\* the last part of a path is only ever looked up as a field: a path that
\* ends in a relation creates no node for it
RECURSIVE constructPartsWithoutLeaf(_, _, _, _, _, _)
constructPartsWithoutLeaf(schemaPaths, tree, parts, k, cur, currentPath) ==
    IF k > Len(parts) THEN tree
    ELSE LET part == parts[k]
             path == currentPath \o <<PATH_SEPARATOR>> \o part
             child == cur \o <<part>>
         IN  IF part = <<>>
             THEN constructPartsWithoutLeaf(schemaPaths, tree, parts, k + 1, cur, currentPath)
             ELSE IF k = Len(parts)
             THEN IF includes(schemaPaths.relations.selectable, path)
                  THEN [tree EXCEPT !.nodes[cur].fields = SetAdd(@, part)]
                  ELSE tree
             ELSE constructPartsWithoutLeaf(schemaPaths,
                      IF ~hasNode(tree, child) THEN setNode(tree, child, createNode(path))
                      ELSE tree,
                      parts, k + 1, child, path)

\* whichever comes first wins: the last part of a path is not recorded as a
\* field once an earlier path has made a relation node of the same name
RECURSIVE constructPartsFirstWins(_, _, _, _, _, _)
constructPartsFirstWins(schemaPaths, tree, parts, k, cur, currentPath) ==
    IF k > Len(parts) THEN tree
    ELSE LET part == parts[k]
             path == currentPath \o <<PATH_SEPARATOR>> \o part
             child == cur \o <<part>>
         IN  IF part = <<>>
             THEN constructPartsFirstWins(schemaPaths, tree, parts, k + 1, cur, currentPath)
             ELSE IF k = Len(parts)
             THEN IF hasNode(tree, child) THEN tree
                  ELSE IF includes(schemaPaths.relations.selectable, path)
                  THEN [tree EXCEPT !.nodes[cur].fields = SetAdd(@, part)]
                  ELSE setNode(tree, child, createNode(path))
             ELSE constructPartsFirstWins(schemaPaths,
                      IF ~hasNode(tree, child) THEN setNode(tree, child, createNode(path))
                      ELSE tree,
                      parts, k + 1, child, path)

\* Step 2, the inner loop over parts[i], i >= 1 (here k = i + 1); cur is the
\* position of currentNode and currentPath the path built so far
RECURSIVE constructParts(_, _, _, _, _, _)
constructParts(schemaPaths, tree, parts, k, cur, currentPath) ==
    IF k > Len(parts) THEN tree
    ELSE LET part == parts[k]
             path == currentPath \o <<PATH_SEPARATOR>> \o part
             child == cur \o <<part>>
         IN  IF part = <<>> THEN constructParts(schemaPaths, tree, parts, k + 1, cur, currentPath)
             ELSE IF k = Len(parts)
             THEN IF includes(schemaPaths.relations.selectable, path)
                  THEN [tree EXCEPT !.nodes[cur].fields = SetAdd(@, part)]
                  ELSE IF ~hasNode(tree, child)
                  THEN setNode(tree, child, createNode(path))
                  ELSE tree
             ELSE constructParts(schemaPaths,
                      IF ~hasNode(tree, child) THEN setNode(tree, child, createNode(path))
                      ELSE tree,
                      parts, k + 1, child, path)

\* a path of one part is skipped before its root node is made
constructPathNestedOnly(schemaPaths, tree, param) ==
    LET parts == split(param, PATH_SEPARATOR)
        rootKey == parts[1]
        withRoot == IF ~hasNode(tree, <<rootKey>>)
                    THEN setNode(tree, <<rootKey>>, createNode(rootKey))
                    ELSE tree
    IN  IF rootKey = <<>> \/ Len(parts) = 1 THEN tree
        ELSE constructParts(schemaPaths, withRoot, parts, 2, <<rootKey>>, rootKey)

\* Step 2, one populate path
constructPath(schemaPaths, tree, param) ==
    LET parts == split(param, PATH_SEPARATOR)
        rootKey == parts[1]
        withRoot == IF ~hasNode(tree, <<rootKey>>)
                    THEN setNode(tree, <<rootKey>>, createNode(rootKey))
                    ELSE tree
    IN  IF rootKey = <<>> THEN tree
        ELSE IF Len(parts) = 1 THEN withRoot
        ELSE constructParts(schemaPaths, withRoot, parts, 2, <<rootKey>>, rootKey)

RECURSIVE constructTreeStructureFrom(_, _, _, _)
constructTreeStructureFrom(schemaPaths, populatePaths, k, tree) ==
    IF k > Len(populatePaths) THEN tree
    ELSE constructTreeStructureFrom(schemaPaths, populatePaths, k + 1,
             constructPath(schemaPaths, tree, populatePaths[k]))

constructTreeStructure(populatePaths, schemaPaths, tree) ==
    constructTreeStructureFrom(schemaPaths, populatePaths, 1, tree)

\* every node without fields is expanded, whether or not its path is in the
\* populate list
needsSchemaFieldsOfAny(node, path, populatePaths, relationsWithExplicitFields) ==
    LET hasExplicitFields == path \in DOMAIN relationsWithExplicitFields
    IN  ~hasExplicitFields /\ Len(node.fields) = 0

\* a relation with child relations is not given the fields of the schema
needsSchemaFieldsOfLeaf(node, path, populatePaths, relationsWithExplicitFields) ==
    /\ path \notin DOMAIN relationsWithExplicitFields
    /\ includes(populatePaths, path)
    /\ Len(node.fields) = 0
    /\ Len(node.relations) = 0

\* every relation requested bare is given the fields of the schema
needsSchemaFieldsOfBare(node, path, populatePaths, relationsWithExplicitFields) ==
    includes(populatePaths, path)

\* Step 3: the test that decides whether a node gets all fields of the schema
needsSchemaFields(node, path, populatePaths, relationsWithExplicitFields) ==
    LET hasExplicitFields == path \in DOMAIN relationsWithExplicitFields
    IN  ~hasExplicitFields /\ includes(populatePaths, path) /\ Len(node.fields) = 0

\* the expansion takes every selectable path below the relation, the fields
\* of its sub-relations included
RECURSIVE schemaFieldsWithNested(_, _, _, _)
schemaFieldsWithNested(relationFields, path, k, fields) ==
    IF k > Len(relationFields) THEN fields
    ELSE LET fieldPath == relationFields[k]
             fieldName == substring(fieldPath, Len(path) + 1)
         IN  schemaFieldsWithNested(relationFields, path, k + 1,
                 IF startsWith(fieldPath, path \o <<PATH_SEPARATOR>>)
                 THEN SetAdd(fields, fieldName)
                 ELSE fields)

\* Step 3: the direct fields of the relation at path, in schema order
RECURSIVE schemaFieldsFrom(_, _, _, _)
schemaFieldsFrom(relationFields, path, k, fields) ==
    IF k > Len(relationFields) THEN fields
    ELSE LET fieldPath == relationFields[k]
             fieldName == substring(fieldPath, Len(path) + 1)
         IN  schemaFieldsFrom(relationFields, path, k + 1,
                 IF /\ startsWith(fieldPath, path \o <<PATH_SEPARATOR>>)
                    /\ ~includes(fieldName, PATH_SEPARATOR)
                 THEN SetAdd(fields, fieldName)
                 ELSE fields)

RECURSIVE processNode(_, _, _, _, _, _)
RECURSIVE processChildren(_, _, _, _, _, _)
processChildren(tree, pos, k, populatePaths, schemaPaths, relationsWithExplicitFields) ==
    IF k > Len(tree.nodes[pos].relations) THEN tree
    ELSE LET child == pos \o <<tree.nodes[pos].relations[k]>>
         IN  processChildren(
                 processNode(tree, child, tree.nodes[child].path, populatePaths,
                             schemaPaths, relationsWithExplicitFields),
                 pos, k + 1, populatePaths, schemaPaths, relationsWithExplicitFields)

processNode(tree, pos, path, populatePaths, schemaPaths, relationsWithExplicitFields) ==
    LET node == tree.nodes[pos]
        enriched ==
            IF needsSchemaFields(node, path, populatePaths, relationsWithExplicitFields)
            THEN [tree EXCEPT !.nodes[pos].fields =
                      schemaFieldsFrom(schemaPaths.relations.selectable, path, 1, @)]
            ELSE tree
    IN  processChildren(enriched, pos, 1, populatePaths, schemaPaths,
                        relationsWithExplicitFields)

RECURSIVE enrichFrom(_, _, _, _, _)
enrichFrom(tree, k, populatePaths, schemaPaths, relationsWithExplicitFields) ==
    IF k > Len(tree.keys) THEN tree
    ELSE enrichFrom(
             processNode(tree, <<tree.keys[k]>>, tree.keys[k], populatePaths,
                         schemaPaths, relationsWithExplicitFields),
             k + 1, populatePaths, schemaPaths, relationsWithExplicitFields)

enrichRelationsWithFields(tree, populatePaths, schemaPaths, relationsWithExplicitFields) ==
    enrichFrom(tree, 1, populatePaths, schemaPaths, relationsWithExplicitFields)

process(populatePaths, schemaPaths) ==
    LET relationsWithExplicitFields == identifyExplicitFields(populatePaths, schemaPaths)
        tree == constructTreeStructure(populatePaths, schemaPaths, EmptyTree)
    IN  enrichRelationsWithFields(tree, populatePaths, schemaPaths,
                                  relationsWithExplicitFields)


\* ------------------------------------------------------------------
\* StructuredQueryCompiler
\* ------------------------------------------------------------------

\* A destructured option with its default
optionOr(options, name, default) ==
    IF name \in DOMAIN options THEN options[name] ELSE default

\* the requested names are looked up as given
RECURSIVE selectRootFieldsUntrimmed(_, _, _, _)
selectRootFieldsUntrimmed(schemaPaths, fieldsToSelect, k, fields) ==
    IF k > Len(fieldsToSelect) THEN fields
    ELSE selectRootFieldsUntrimmed(schemaPaths, fieldsToSelect, k + 1,
             IF includes(schemaPaths.root.selectable, fieldsToSelect[k])
             THEN ObjSet(fields, fieldsToSelect[k], TRUE)
             ELSE fields)

RECURSIVE selectRootFields(_, _, _, _)
selectRootFields(schemaPaths, fieldsToSelect, k, fields) ==
    IF k > Len(fieldsToSelect) THEN fields
    ELSE LET trimmedField == trim(fieldsToSelect[k])
         IN  selectRootFields(schemaPaths, fieldsToSelect, k + 1,
                 IF includes(schemaPaths.root.selectable, trimmedField)
                 THEN ObjSet(fields, trimmedField, TRUE)
                 ELSE fields)

\* the policy is applied to the selection that comes out, not to the list
\* that was given: requested names that select nothing fall back to it
compileRootFieldsFallback(schemaPaths, selectableFields, selectKey, emptyRootFieldsBehavior) ==
    LET fields == selectRootFields(schemaPaths, selectableFields, 1, <<>>)
    IN  IF Len(fields) # 0 THEN <<[k |-> selectKey, v |-> fields]>>
        ELSE IF emptyRootFieldsBehavior = "leaveEmpty"
        THEN <<[k |-> selectKey, v |-> <<>>]>>
        ELSE <<[k |-> selectKey,
                v |-> selectRootFields(schemaPaths, schemaPaths.root.selectable, 1, <<>>)]>>

\* only the requested names are selected, whatever the policy
compileRootFieldsNoPolicy(schemaPaths, selectableFields, selectKey, emptyRootFieldsBehavior) ==
    <<[k |-> selectKey, v |-> selectRootFields(schemaPaths, selectableFields, 1, <<>>)]>>

compileRootFields(schemaPaths, selectableFields, selectKey, emptyRootFieldsBehavior) ==
    IF Len(selectableFields) = 0 /\ emptyRootFieldsBehavior = "leaveEmpty"
    THEN <<[k |-> selectKey, v |-> <<>>]>>
    ELSE LET fieldsToSelect == IF Len(selectableFields) # 0
                               THEN selectableFields
                               ELSE schemaPaths.root.selectable
         IN  <<[k |-> selectKey,
                v |-> selectRootFields(schemaPaths, fieldsToSelect, 1, <<>>)]>>

\* a path is accepted as soon as one of its prefixes is a relation key
isValidPathByPrefix(schemaPaths, path) ==
    \/ includes(schemaPaths.relations.selectable, path)
    \/ LET parts == split(path, PATH_SEPARATOR)
       IN  \E k \in 1..Len(parts) :
               includes(schemaPaths.relations.keys, join(slice0(parts, k), PATH_SEPARATOR))

isValidPath(schemaPaths, path) ==
    \/ includes(schemaPaths.relations.selectable, path)
    \/ includes(schemaPaths.relations.keys, path)

\* a path that occurs more than once in the list is dropped altogether
filterValidPathsUnique(schemaPaths, populate) ==
    LET once(path) == Cardinality({k \in DOMAIN populate : populate[k] = path}) = 1
        valid(path) == isValidPath(schemaPaths, path)
    IN  SelectSeq(SelectSeq(populate, once), valid)

filterValidPaths(schemaPaths, populate) ==
    LET truthy(path) == path # <<>>
        valid(path) == isValidPath(schemaPaths, path)
    IN  SelectSeq(SelectSeq(populate, truthy), valid)

processRelationTree(schemaPaths, populatePaths) == process(populatePaths, schemaPaths)

\* isEnumValue(value, SortDirection): value is one of the enum's values
isEnumValue(value, enum) == \E name \in DOMAIN enum : enum[name] = value

\* SortDirection[name]; a name the enum does not have reads as undefined
enumLookup(enum, name) == IF name \in DOMAIN enum THEN enum[name] ELSE "undefined"

sortDirectionOf(option) ==
    IF "direction" \in DOMAIN option
    THEN IF isEnumValue(option.direction, SortDirection)
         THEN option.direction
         ELSE enumLookup(SortDirection, option.direction)
    ELSE DEFAULT_SORT_DIRECTION

\* the node reached from the root node at parts[0] through parts[1..n-2]
RECURSIVE navigate(_, _, _, _)
navigate(tree, parts, k, cur) ==
    IF k > Len(parts) - 1 THEN Present(cur)
    ELSE IF ~hasNode(tree, cur \o <<parts[k]>>) THEN Absent
    ELSE navigate(tree, parts, k + 1, cur \o <<parts[k]>>)

\* ways of attaching a nested sort field that differ from processNestedSortField
\* in one respect each: the relation is populated when the tree lacks it; the
\* path is not looked up in relations.sortable; the field is also selected;
\* the node's sort mapping is replaced, not added to
nestedSortVariant(schemaPaths, fieldPath, direction, tree, sortKey, populating,
                  unchecked, selecting, replacing) ==
    LET parts == split(fieldPath, PATH_SEPARATOR)
        path == parts[1]
        sortField == parts[Len(parts)]
        relationPath == join(slice0(parts, Len(parts) - 1), PATH_SEPARATOR)
        grown == IF populating /\ includes(schemaPaths.relations.keys, relationPath)
                 THEN constructPath(schemaPaths, tree, relationPath)
                 ELSE tree
        currentNode == IF hasNode(grown, <<path>>) THEN navigate(grown, parts, 2, <<path>>)
                       ELSE Absent
    IN  IF Len(parts) < 2 THEN tree
        ELSE IF path = <<>> \/ sortField = <<>> THEN tree
        ELSE IF ~currentNode.present THEN tree
        ELSE IF ~unchecked /\ ~includes(schemaPaths.relations.sortable, fieldPath) THEN tree
        ELSE LET node == grown.nodes[currentNode.value]
                 metadata == IF node.metadata.present THEN node.metadata.value ELSE <<>>
                 sorts == IF ObjHas(metadata, sortKey) /\ ~replacing
                          THEN ObjGet(metadata, sortKey)
                          ELSE <<>>
             IN  [grown EXCEPT !.nodes[currentNode.value] =
                      [node EXCEPT !.metadata =
                                       Present(ObjSet(metadata, sortKey,
                                                      ObjSet(sorts, sortField, direction))),
                                   !.fields = IF selecting THEN SetAdd(@, sortField) ELSE @]]

\* a sort on a relation the tree lacks populates the relation
processNestedSortFieldPopulating(schemaPaths, fieldPath, direction, tree, sortKey) ==
    nestedSortVariant(schemaPaths, fieldPath, direction, tree, sortKey,
                      TRUE, FALSE, FALSE, FALSE)

\* the path is not looked up in relations.sortable
processNestedSortFieldUnchecked(schemaPaths, fieldPath, direction, tree, sortKey) ==
    nestedSortVariant(schemaPaths, fieldPath, direction, tree, sortKey,
                      FALSE, TRUE, FALSE, FALSE)

\* the sort field is added to the node's selected fields
processNestedSortFieldSelecting(schemaPaths, fieldPath, direction, tree, sortKey) ==
    nestedSortVariant(schemaPaths, fieldPath, direction, tree, sortKey,
                      FALSE, FALSE, TRUE, FALSE)

\* a later sort field replaces the node's sort mapping
processNestedSortFieldReplacing(schemaPaths, fieldPath, direction, tree, sortKey) ==
    nestedSortVariant(schemaPaths, fieldPath, direction, tree, sortKey,
                      FALSE, FALSE, FALSE, TRUE)

processNestedSortField(schemaPaths, fieldPath, direction, tree, sortKey) ==
    LET parts == split(fieldPath, PATH_SEPARATOR)
        path == parts[1]
        sortField == parts[Len(parts)]
        currentNode == IF hasNode(tree, <<path>>) THEN navigate(tree, parts, 2, <<path>>)
                       ELSE Absent
    IN  IF Len(parts) < 2 THEN tree
        ELSE IF path = <<>> \/ sortField = <<>> THEN tree
        ELSE IF ~currentNode.present THEN tree
        ELSE IF ~includes(schemaPaths.relations.sortable, fieldPath) THEN tree
        ELSE LET node == tree.nodes[currentNode.value]
                 metadata == IF node.metadata.present THEN node.metadata.value ELSE <<>>
                 sorts == IF ObjHas(metadata, sortKey) THEN ObjGet(metadata, sortKey)
                          ELSE <<>>
             IN  [tree EXCEPT !.nodes[currentNode.value].metadata =
                      Present(ObjSet(metadata, sortKey,
                                     ObjSet(sorts, sortField, direction)))]

\* the sort argument as a list: nothing for undefined, [sort] for one option
\* (value then holds that one option), the array itself otherwise
sortOptionsOf(options) ==
    IF "sort" \in DOMAIN options
    THEN options.sort.value
    ELSE <<>>

\* a root field is looked up in root.selectable
compileSortOptionBySelectable(schemaPaths, option, sortKey, state) ==
    LET field == trim(option.field)
        direction == sortDirectionOf(option)
    IN  IF includes(field, PATH_SEPARATOR)
        THEN [rootSortObject |-> state.rootSortObject,
              tree |-> processNestedSortField(schemaPaths, field, direction,
                                              state.tree, sortKey)]
        ELSE IF includes(schemaPaths.root.selectable, field)
        THEN [rootSortObject |-> ObjSet(state.rootSortObject, field, direction),
              tree |-> state.tree]
        ELSE state

\* a root field is sorted on without looking it up in root.sortable
compileSortOptionUnchecked(schemaPaths, option, sortKey, state) ==
    LET field == trim(option.field)
        direction == sortDirectionOf(option)
    IN  IF includes(field, PATH_SEPARATOR)
        THEN [rootSortObject |-> state.rootSortObject,
              tree |-> processNestedSortField(schemaPaths, field, direction,
                                              state.tree, sortKey)]
        ELSE [rootSortObject |-> ObjSet(state.rootSortObject, field, direction),
              tree |-> state.tree]

\* one turn of the loop over sortOptions
compileSortOption(schemaPaths, option, sortKey, state) ==
    LET field == trim(option.field)
        direction == sortDirectionOf(option)
    IN  IF includes(field, PATH_SEPARATOR)
        THEN [rootSortObject |-> state.rootSortObject,
              tree |-> processNestedSortField(schemaPaths, field, direction,
                                              state.tree, sortKey)]
        ELSE IF includes(schemaPaths.root.sortable, field)
        THEN [rootSortObject |-> ObjSet(state.rootSortObject, field, direction),
              tree |-> state.tree]
        ELSE state

\* the root sort mapping is returned even when it is empty
rootSortOfAlways(rootSortObject, sortKey) ==
    Present(<<[k |-> sortKey, v |-> rootSortObject]>>)

\* the value returned after the loop
rootSortOf(rootSortObject, sortKey) ==
    IF Len(ObjKeys(rootSortObject)) > 0
    THEN Present(<<[k |-> sortKey, v |-> rootSortObject]>>)
    ELSE Absent

RECURSIVE compileSortOptionsFrom(_, _, _, _, _)
compileSortOptionsFrom(schemaPaths, sortOptions, sortKey, k, state) ==
    IF k > Len(sortOptions) THEN state
    ELSE compileSortOptionsFrom(schemaPaths, sortOptions, sortKey, k + 1,
             compileSortOption(schemaPaths, sortOptions[k], sortKey, state))

compileSortOptions(schemaPaths, options, sortKey, tree) ==
    LET state == compileSortOptionsFrom(schemaPaths, sortOptionsOf(options), sortKey, 1,
                     [rootSortObject |-> <<>>, tree |-> tree])
    IN  [rootSort |-> rootSortOf(state.rootSortObject, sortKey), tree |-> state.tree]

RECURSIVE convertNodeFieldsFrom(_, _, _)
convertNodeFieldsFrom(nodeFields, k, fields) ==
    IF k > Len(nodeFields) THEN fields
    ELSE convertNodeFieldsFrom(nodeFields, k + 1, ObjSet(fields, nodeFields[k], TRUE))

convertNodeFields(node) == convertNodeFieldsFrom(node.fields, 1, <<>>)

\* Object.entries(node.metadata) copied onto the node's result
withNodeMetadata(node, nodeResult) ==
    IF node.metadata.present THEN Spread(nodeResult, node.metadata.value) ELSE nodeResult

\* the selection of a relation is written under the default key
withNodeFieldsUnderDefault(node, selectKey, nodeResult) ==
    IF Len(node.fields) > 0
    THEN ObjSet(nodeResult, DEFAULT_SELECT_KEY, convertNodeFields(node))
    ELSE nodeResult

\* the selection entry is written even when the node has no field
withNodeFieldsAlways(node, selectKey, nodeResult) ==
    ObjSet(nodeResult, selectKey, convertNodeFields(node))

\* the node's selection entry, when it has one
withNodeFields(node, selectKey, nodeResult) ==
    LET convertedNodeFields == convertNodeFields(node)
    IN  IF Len(ObjKeys(convertedNodeFields)) > 0
        THEN ObjSet(nodeResult, selectKey, convertedNodeFields)
        ELSE nodeResult

RECURSIVE convertNodeToQuery(_, _, _, _, _)
RECURSIVE convertNodeRelationsFrom(_, _, _, _, _, _, _)
convertNodeRelationsFrom(tree, pos, k, selectKey, includeKey, sortKey, relations) ==
    IF k > Len(tree.nodes[pos].relations) THEN relations
    ELSE LET key == tree.nodes[pos].relations[k]
         IN  convertNodeRelationsFrom(tree, pos, k + 1, selectKey, includeKey, sortKey,
                 ObjSet(relations, key,
                        convertNodeToQuery(tree, pos \o <<key>>, selectKey, includeKey,
                                           sortKey)))

convertNodeToQuery(tree, pos, selectKey, includeKey, sortKey) ==
    LET node == tree.nodes[pos]
        selected == withNodeFields(node, selectKey, <<>>)
        sorted == withNodeMetadata(node, selected)
    IN  IF Len(node.relations) > 0
        THEN ObjSet(sorted, includeKey,
                    convertNodeRelationsFrom(tree, pos, 1, selectKey, includeKey, sortKey,
                                             <<>>))
        ELSE sorted

RECURSIVE convertRootsFrom(_, _, _, _, _, _)
convertRootsFrom(tree, k, selectKey, includeKey, sortKey, rootRelations) ==
    IF k > Len(tree.keys) THEN rootRelations
    ELSE convertRootsFrom(tree, k + 1, selectKey, includeKey, sortKey,
             ObjSet(rootRelations, tree.keys[k],
                    convertNodeToQuery(tree, <<tree.keys[k]>>, selectKey, includeKey,
                                       sortKey)))

convertTreeToQuery(tree, selectKey, includeKey, sortKey) ==
    LET rootRelations == convertRootsFrom(tree, 1, selectKey, includeKey, sortKey, <<>>)
    IN  IF Len(ObjKeys(rootRelations)) > 0
        THEN <<[k |-> includeKey, v |-> rootRelations]>>
        ELSE <<>>

mergeRootFieldsWithRelations(rootFields, relationQuery, includeKey) ==
    LET result == ObjSet(rootFields, includeKey, <<>>)
    IN  IF ObjHas(relationQuery, includeKey)
        THEN ObjSet(result, includeKey, ObjGet(relationQuery, includeKey))
        ELSE result

\* the relations are merged in even when no populate path was accepted
compileResultAlwaysMerged(rootFields, validPopulatePaths, tree, rootSort, selectKey, includeKey, sortKey) ==
    Spread(mergeRootFieldsWithRelations(rootFields,
               convertTreeToQuery(tree, selectKey, includeKey, sortKey), includeKey),
           IF rootSort.present THEN rootSort.value ELSE <<>>)

\* the return statement of compile, from the values computed before it
compileResult(rootFields, validPopulatePaths, tree, rootSort, selectKey, includeKey, sortKey) ==
    LET sortPart == IF rootSort.present THEN rootSort.value ELSE <<>>
    IN  IF Len(validPopulatePaths) = 0
        THEN Spread(rootFields, sortPart)
        ELSE Spread(mergeRootFieldsWithRelations(rootFields,
                        convertTreeToQuery(tree, selectKey, includeKey, sortKey),
                        includeKey),
                    sortPart)

\* compile, as one function of the index and the request
compile(schemaPaths, options) ==
    LET includeKey == optionOr(options, "includeKey", DEFAULT_INCLUDE_KEY)
        selectKey == optionOr(options, "selectKey", DEFAULT_SELECT_KEY)
        emptyRootFieldsBehavior == optionOr(options, "emptyRootFieldsBehavior", "returnAll")
        sortKey == optionOr(options, "sortKey", DEFAULT_SORT_KEY)
        rootFields == compileRootFields(schemaPaths, options.selectableFields, selectKey,
                                        emptyRootFieldsBehavior)
        validPopulatePaths == filterValidPaths(schemaPaths, options.populate)
        tree == IF Len(validPopulatePaths) > 0
                THEN processRelationTree(schemaPaths, validPopulatePaths)
                ELSE EmptyTree
        sortResult == compileSortOptions(schemaPaths, options, sortKey, tree)
    IN  compileResult(rootFields, validPopulatePaths, sortResult.tree, sortResult.rootSort,
                      selectKey, includeKey, sortKey)

\* ------------------------------------------------------------------
\* Requests
\* ------------------------------------------------------------------

MaxPopulate == 2

MaxSelect == 2

MaxSort == 2

\* length of the field lists of the generated schema declarations
MaxFields == 2

SeqsUpTo(S, n) == UNION {[1..k -> S] : k \in 0..n}

\* populate entries: empty, unknown, relations, fields, a path below a
\* relation that the schema does not have, nested relations and fields
PopulatePaths ==
    { <<>>, <<"x">>, <<"p">>, <<"t">>,
      <<"p", ".", "b">>, <<"p", ".", "x">>, <<"p", ".", "s">>,
      <<"p", ".", "a">>, <<"p", ".", "a", ".", "i">>, <<"p", ".", "a", ".", "s">> }

\* root field names: known, known with surrounding blanks, unknown
RootFieldNames == { <<"i">>, <<" ", "n", " ">>, <<"z">> }

\* sort requests: root fields (one with blanks and no direction, one with a
\* direction that is no member of SortDirection), an unknown root field,
\* fields of relations at depth one and two
SortOptions ==
    { [field |-> <<"n">>, direction |-> "desc"],
      [field |-> <<" ", "n">>],
      [field |-> <<"n">>, direction |-> "up"],
      [field |-> <<"i">>, direction |-> "ASC"],
      [field |-> <<"z">>, direction |-> "asc"],
      [field |-> <<"p", ".", "i">>, direction |-> "DESC"],
      [field |-> <<"p", ".", "i">>],
      [field |-> <<"p", ".", "b">>, direction |-> "asc"],
      [field |-> <<"p", ".", "a">>, direction |-> "desc"],
      [field |-> <<"p", ".", "s", ".", "i">>] }

CustomKeys == [selectKey |-> "fields", includeKey |-> "relations", sortKey |-> "sort"]

\* a request with or without the three output key names
WithKeys(request) == {request, request @@ CustomKeys}

\* requests that vary the populate list
PopulateRequests ==
    {[populate |-> populate, selectableFields |-> <<>>] :
        populate \in SeqsUpTo(PopulatePaths, MaxPopulate)}

\* requests that vary the root selection and the empty-root policy
RootRequests ==
    UNION {UNION {WithKeys(r), WithKeys(r @@ [emptyRootFieldsBehavior |-> "returnAll"]),
                  WithKeys(r @@ [emptyRootFieldsBehavior |-> "leaveEmpty"])} :
        r \in {[populate |-> populate, selectableFields |-> selectableFields] :
                 populate \in {<<>>, << <<"p">> >>},
                 selectableFields \in SeqsUpTo(RootFieldNames, MaxSelect)}}

\* requests that vary the sort argument: one option, or an array of options
SortArguments ==
    {[isArray |-> FALSE, value |-> <<option>>] : option \in SortOptions}
        \cup {[isArray |-> TRUE, value |-> list] : list \in SeqsUpTo(SortOptions, MaxSort)}

SortRequests ==
    UNION {WithKeys([populate |-> populate, selectableFields |-> << <<"i">> >>,
                     sort |-> sort]) :
        populate \in {<<>>, << <<"x">> >>, << <<"x">>, <<"p", ".", "b">> >>,
                      << <<"p">>, <<"p", ".", "s">> >>, << <<"p", ".", "s">> >>},
        sort \in SortArguments}

\* requests that repeat a populate entry, side by side and with another entry
\* in between
RepeatRequests ==
    {[populate |-> populate, selectableFields |-> <<>>] :
        populate \in { << <<"p">>, <<"p">>, <<"p">> >>,
                       << <<"p", ".", "s">>, <<"p">>, <<"p", ".", "s">> >>,
                       << <<"p", ".", "a">>, <<"p", ".", "a", ".", "s">>, <<"p", ".", "a">> >>,
                       << <<"t">>, <<"p", ".", "b">>, <<"t">> >> }}

Requests == PopulateRequests \cup RootRequests \cup SortRequests \cup RepeatRequests

\* ------------------------------------------------------------------
\* The compiler instance and one compile call at a time
\* ------------------------------------------------------------------

VARIABLES
    schema,                       \* the declaration given to forSchema
    schemaPaths,                  \* this.schemaPaths, set by the constructor
    pc,                           \* the statement of compile that runs next
    options,                      \* the argument of the running compile call
    rootFields,                   \* const rootFields
    validPopulatePaths,           \* const validPopulatePaths
    relationsWithExplicitFields,  \* the map of TreeProcessor.process
    tree,                         \* the tree under construction
    cursor,                       \* index of the running loop
    rootSortObject,               \* the accumulator of compileSortOptions
    rootSort,                     \* sortResult.rootSort
    result,                       \* the value compile returned
    remembered                    \* the caller's note of its first call and the output

vars == <<schema, schemaPaths, pc, options, rootFields, validPopulatePaths,
          relationsWithExplicitFields, tree, cursor, rootSortObject, rootSort, result,
          remembered>>

includeKey == optionOr(options, "includeKey", DEFAULT_INCLUDE_KEY)

selectKey == optionOr(options, "selectKey", DEFAULT_SELECT_KEY)

sortKey == optionOr(options, "sortKey", DEFAULT_SORT_KEY)

emptyRootFieldsBehavior == optionOr(options, "emptyRootFieldsBehavior", "returnAll")

\* StructuredQueryCompiler.forSchema(schema)
Init ==
    /\ schema \in Schemas
    /\ schemaPaths = buildSchemaPaths(schema)
    /\ remembered = Absent
    /\ pc = "idle"
    /\ options = [populate |-> <<>>, selectableFields |-> <<>>]
    /\ rootFields = <<>>
    /\ validPopulatePaths = <<>>
    /\ relationsWithExplicitFields = <<>>
    /\ tree = EmptyTree
    /\ cursor = 1
    /\ rootSortObject = <<>>
    /\ rootSort = Absent
    /\ result = <<>>

\* compiler.compile(request): a new call on the instance
Compile(request) ==
    /\ pc = "idle"
    /\ pc' = "compileRootFields"
    /\ options' = request
    /\ UNCHANGED <<schemaPaths, rootFields, validPopulatePaths,
                   relationsWithExplicitFields, tree, cursor, rootSortObject, rootSort,
                   result>>
    /\ UNCHANGED <<schema, remembered>>

CompileRootFields ==
    /\ pc = "compileRootFields"
    /\ rootFields' = compileRootFields(schemaPaths, options.selectableFields, selectKey,
                                       emptyRootFieldsBehavior)
    /\ pc' = "filterValidPaths"
    /\ UNCHANGED <<schemaPaths, options, validPopulatePaths, relationsWithExplicitFields,
                   tree, cursor, rootSortObject, rootSort, result>>
    /\ UNCHANGED <<schema, remembered>>

FilterValidPaths ==
    /\ pc = "filterValidPaths"
    /\ validPopulatePaths' = filterValidPaths(schemaPaths, options.populate)
    /\ pc' = IF Len(validPopulatePaths') > 0 THEN "identifyExplicitFields"
             ELSE "compileSortOptions"
    /\ tree' = EmptyTree                  \* new Map<string, TreeNode>()
    /\ rootSortObject' = <<>>             \* const rootSortObject = {}
    /\ cursor' = 1
    /\ UNCHANGED <<schemaPaths, options, rootFields, relationsWithExplicitFields,
                   rootSort, result>>
    /\ UNCHANGED <<schema, remembered>>

\* the processor keeps the map of an earlier call and adds to it
IdentifyExplicitFieldsKept ==
    /\ pc = "identifyExplicitFields"
    /\ relationsWithExplicitFields' =
           identifyExplicitFieldsFrom(schemaPaths, validPopulatePaths, 1,
                                      relationsWithExplicitFields)
    /\ pc' = "constructTreeStructure"
    /\ cursor' = 1
    /\ UNCHANGED <<schema, schemaPaths, options, rootFields, validPopulatePaths, tree,
                   rootSortObject, rootSort, result, remembered>>

IdentifyExplicitFields ==
    /\ pc = "identifyExplicitFields"
    /\ relationsWithExplicitFields' = identifyExplicitFields(validPopulatePaths, schemaPaths)
    /\ pc' = "constructTreeStructure"
    /\ cursor' = 1
    /\ UNCHANGED <<schemaPaths, options, rootFields, validPopulatePaths, tree,
                   rootSortObject, rootSort, result>>
    /\ UNCHANGED <<schema, remembered>>

\* one populate path of the loop of constructTreeStructure
ConstructTreeStructure ==
    /\ pc = "constructTreeStructure"
    /\ cursor <= Len(validPopulatePaths)
    /\ tree' = constructPath(schemaPaths, tree, validPopulatePaths[cursor])
    /\ cursor' = cursor + 1
    /\ pc' = IF cursor = Len(validPopulatePaths) THEN "enrichRelationsWithFields"
             ELSE "constructTreeStructure"
    /\ UNCHANGED <<schemaPaths, options, rootFields, validPopulatePaths,
                   relationsWithExplicitFields, rootSortObject, rootSort, result>>
    /\ UNCHANGED <<schema, remembered>>

EnrichRelationsWithFields ==
    /\ pc = "enrichRelationsWithFields"
    /\ tree' = enrichRelationsWithFields(tree, validPopulatePaths, schemaPaths,
                                         relationsWithExplicitFields)
    /\ pc' = "compileSortOptions"
    /\ cursor' = 1
    /\ UNCHANGED <<schemaPaths, options, rootFields, validPopulatePaths,
                   relationsWithExplicitFields, rootSortObject, rootSort, result>>
    /\ UNCHANGED <<schema, remembered>>

\* one sort option of the loop of compileSortOptions
CompileSortOption ==
    /\ pc = "compileSortOptions"
    /\ cursor <= Len(sortOptionsOf(options))
    /\ LET state == compileSortOption(schemaPaths, sortOptionsOf(options)[cursor], sortKey,
                        [rootSortObject |-> rootSortObject, tree |-> tree])
       IN  /\ rootSortObject' = state.rootSortObject
           /\ tree' = state.tree
    /\ cursor' = cursor + 1
    /\ UNCHANGED <<schemaPaths, pc, options, rootFields, validPopulatePaths,
                   relationsWithExplicitFields, rootSort, result>>
    /\ UNCHANGED <<schema, remembered>>

\* the end of compileSortOptions
CompileSortOptionsDone ==
    /\ pc = "compileSortOptions"
    /\ cursor > Len(sortOptionsOf(options))
    /\ rootSort' = rootSortOf(rootSortObject, sortKey)
    /\ pc' = "return"
    /\ UNCHANGED <<schemaPaths, options, rootFields, validPopulatePaths,
                   relationsWithExplicitFields, tree, cursor, rootSortObject, result>>
    /\ UNCHANGED <<schema, remembered>>

Return ==
    /\ pc = "return"
    /\ result' = compileResult(rootFields, validPopulatePaths, tree, rootSort, selectKey,
                               includeKey, sortKey)
    /\ pc' = "returned"
    /\ UNCHANGED <<schemaPaths, options, rootFields, validPopulatePaths,
                   relationsWithExplicitFields, tree, cursor, rootSortObject, rootSort>>
    /\ UNCHANGED <<schema, remembered>>

\* the call is over: its locals and its tree are dropped, the instance keeps
\* only schemaPaths and is ready for the next call
Discard ==
    /\ pc = "returned"
    /\ pc' = "idle"
    /\ options' = [populate |-> <<>>, selectableFields |-> <<>>]
    /\ rootFields' = <<>>
    /\ validPopulatePaths' = <<>>
    /\ relationsWithExplicitFields' = <<>>
    /\ tree' = EmptyTree
    /\ cursor' = 1
    /\ rootSortObject' = <<>>
    /\ rootSort' = Absent
    /\ result' = <<>>
    /\ UNCHANGED schemaPaths
    /\ UNCHANGED <<schema, remembered>>

Next ==
    \/ pc = "idle" /\ \E request \in Requests : Compile(request)
    \/ CompileRootFields
    \/ FilterValidPaths
    \/ IdentifyExplicitFields
    \/ ConstructTreeStructure
    \/ EnrichRelationsWithFields
    \/ CompileSortOption
    \/ CompileSortOptionsDone
    \/ Return
    \/ Discard

Spec == Init /\ [][Next]_vars

\* ------------------------------------------------------------------
\* One instance used for call after call
\* ------------------------------------------------------------------

\* the requests a caller repeats on one instance
ReuseRequests ==
    { [populate |-> << <<"p">> >>, selectableFields |-> <<>>],
      [populate |-> << <<"p", ".", "b">> >>, selectableFields |-> <<>>],
      [populate |-> << <<"x">> >>, selectableFields |-> <<>>,
       emptyRootFieldsBehavior |-> "leaveEmpty"],
      [populate |-> <<>>, selectableFields |-> << <<" ", "n", " ">> >>,
       sort |-> [isArray |-> FALSE, value |-> << [field |-> <<" ", "n">>] >>]],
      [populate |-> << <<"p">>, <<"p", ".", "s">> >>, selectableFields |-> << <<"i">> >>,
       sort |-> [isArray |-> TRUE,
                 value |-> << [field |-> <<"p", ".", "i">>, direction |-> "DESC"],
                              [field |-> <<"n">>, direction |-> "desc"] >>]],
      [populate |-> << <<"p">>, <<"p", ".", "b">> >>, selectableFields |-> <<>>,
       sort |-> [isArray |-> FALSE,
                 value |-> << [field |-> <<"p", ".", "b">>, direction |-> "asc"] >>]]
          @@ CustomKeys }

\* compiler.compile(request) on an instance that has returned from a call:
\* the caller still holds the last output, and whatever the last call left
\* behind is still where it was when the next one starts
Recompile(request) ==
    /\ pc = "returned"
    /\ pc' = "compileRootFields"
    /\ options' = request
    /\ remembered' =
           IF remembered.present
           THEN [remembered EXCEPT !.between = @ \/ options # remembered.request]
           ELSE [present |-> TRUE, request |-> options, result |-> result,
                 between |-> FALSE]
    /\ UNCHANGED <<schema, schemaPaths, rootFields, validPopulatePaths,
                   relationsWithExplicitFields, tree, cursor, rootSortObject, rootSort,
                   result>>

NextReuse ==
    \/ pc = "idle" /\ \E request \in ReuseRequests : Compile(request)
    \/ CompileRootFields
    \/ FilterValidPaths
    \/ IdentifyExplicitFields
    \/ ConstructTreeStructure
    \/ EnrichRelationsWithFields
    \/ CompileSortOption
    \/ CompileSortOptionsDone
    \/ Return
    \/ pc = "returned" /\ \E request \in ReuseRequests : Recompile(request)

SpecReuse == Init /\ [][NextReuse]_vars

\* ------------------------------------------------------------------
\* forSchema over a family of schema declarations
\* ------------------------------------------------------------------

\* lists of field names, with repetitions
FieldLists == SeqsUpTo({ <<"i">>, <<"n">> }, MaxFields)

\* the declaration of a relation with its fields, with or without a
\* sortableFields list, and a nested relation s
relationDeclaration(fields, sortable, nestedFields) ==
    LET declaration ==
            [selectableFields |-> fields,
             populate |-> << [name |-> <<"s">>,
                              schema |-> [selectableFields |-> nestedFields]] >>]
    IN  IF sortable.present THEN declaration @@ [sortableFields |-> sortable.value]
        ELSE declaration

\* root fields, relation p (fields, maybe sortableFields, nested relation s
\* with the fields of the root) and relation t without fields
DeclaredSchemas ==
    { [selectableFields |-> rootList,
       populate |-> << [name |-> <<"p">>,
                        schema |-> relationDeclaration(pList, sortable, rootList)],
                       [name |-> <<"t">>, schema |-> [populate |-> <<>>]] >>] :
        rootList \in FieldLists, pList \in FieldLists,
        sortable \in {Absent} \cup {Present(list) : list \in FieldLists} }

\* no instance yet
NoIndex ==
    [root |-> [selectable |-> <<>>, sortable |-> <<>>],
     relations |-> [keys |-> <<>>, selectable |-> <<>>, sortable |-> <<>>]]

InitIndex ==
    /\ schema \in DeclaredSchemas
    /\ schemaPaths = NoIndex
    /\ remembered = Absent
    /\ pc = "new"
    /\ options = [populate |-> <<>>, selectableFields |-> <<>>]
    /\ rootFields = <<>>
    /\ validPopulatePaths = <<>>
    /\ relationsWithExplicitFields = <<>>
    /\ tree = EmptyTree
    /\ cursor = 1
    /\ rootSortObject = <<>>
    /\ rootSort = Absent
    /\ result = <<>>

\* StructuredQueryCompiler.forSchema(schema): the constructor builds the index
ForSchema ==
    /\ pc = "new"
    /\ schemaPaths' = buildSchemaPaths(schema)
    /\ pc' = "idle"
    /\ UNCHANGED <<schema, options, rootFields, validPopulatePaths,
                   relationsWithExplicitFields, tree, cursor, rootSortObject, rootSort,
                   result, remembered>>

NextIndex == ForSchema

SpecIndex == InitIndex /\ [][NextIndex]_vars

\* ------------------------------------------------------------------
\* Vocabulary of the properties
\* ------------------------------------------------------------------

Selectable == Range(schemaPaths.relations.selectable)

Keys == Range(schemaPaths.relations.keys)

RootSelectable == Range(schemaPaths.root.selectable)

Accepted == Range(validPopulatePaths)

\* q is R.f for one segment f
IsFieldPathOf(q, R) ==
    /\ startsWith(q, R \o <<PATH_SEPARATOR>>)
    /\ Len(q) > Len(R) + 1
    /\ ~includes(substring(q, Len(R) + 1), PATH_SEPARATOR)

\* the direct selectable fields of relation R in the schema
DirectFields(R) ==
    {substring(q, Len(R) + 1) : q \in {q \in Selectable : IsFieldPathOf(q, R)}}

\* the fields of R that the accepted list names explicitly
ExplicitFields(R) ==
    {substring(q, Len(R) + 1) : q \in {q \in Accepted \cap Selectable : IsFieldPathOf(q, R)}}

\* some accepted path goes through a relation below R
HasNestedRelationPath(R) ==
    \E q \in Accepted : \E c \in Keys :
        /\ IsFieldPathOf(c, R)
        /\ (q = c \/ startsWith(q, c \o <<PATH_SEPARATOR>>))

NodePos(R) == split(R, PATH_SEPARATOR)

NodeExists(R) == NodePos(R) \in DOMAIN tree.nodes

NodeFields(R) == Range(tree.nodes[NodePos(R)].fields)

\* filterValidPaths has run
Filtered == pc \notin {"idle", "compileRootFields", "filterValidPaths"}

\* process() has returned the tree of a non-empty accepted list
TreeBuilt ==
    pc \in {"compileSortOptions", "return", "returned"} /\ Len(validPopulatePaths) > 0

Returned == pc = "returned"

\* ------------------------------------------------------------------
\* C1
\* ------------------------------------------------------------------

\* C1: the accepted paths are exactly the populate entries that are members
\* of relations.selectable or of relations.keys (the whole path; a relation
\* key as a prefix is not enough), in the original order, duplicates kept.
C1_AcceptedAreExactMembers ==
    Filtered =>
        LET member(path) == path \in Selectable \cup Keys
        IN  validPopulatePaths = SelectSeq(options.populate, member)

\* the first entry lies below a relation key and is dropped, the second is kept
C1_Witness ==
    /\ Filtered
    /\ Len(options.populate) = 2
    /\ \E key \in Keys : startsWith(options.populate[1], key \o <<PATH_SEPARATOR>>)
    /\ validPopulatePaths = <<options.populate[2]>>

\* ------------------------------------------------------------------
\* C2
\* ------------------------------------------------------------------

\* a sort request names an unrecognized field: a root field that is not in
\* root.sortable, or a dotted path that is not in relations.sortable
OnUnrecognizedField(option) ==
    LET field == trim(option.field)
    IN  IF includes(field, PATH_SEPARATOR)
        THEN field \notin Range(schemaPaths.relations.sortable)
        ELSE field \notin Range(schemaPaths.root.sortable)

\* a sort request names a field of a relation the finished tree has no node for
OnUnpopulatedRelation(option) ==
    LET parts == split(trim(option.field), PATH_SEPARATOR)
    IN  /\ Len(parts) >= 2
        /\ slice0(parts, Len(parts) - 1) \notin DOMAIN tree.nodes

\* the running request without its empty or unrecognized populate entries and
\* without its sort requests on unrecognized fields or unpopulated relations
ReducedRequest ==
    LET member(path) == path # <<>> /\ path \in Selectable \cup Keys
        kept(option) == ~OnUnrecognizedField(option) /\ ~OnUnpopulatedRelation(option)
        populate == SelectSeq(options.populate, member)
        rest == [name \in DOMAIN options \ {"populate", "sort"} |-> options[name]]
    IN  IF "sort" \in DOMAIN options
        THEN rest @@ [populate |-> populate,
                      sort |-> [isArray |-> options.sort.isArray,
                                value |-> SelectSeq(options.sort.value, kept)]]
        ELSE rest @@ [populate |-> populate]

\* C2: compile returns a query for every request (no step raises), and the
\* query equals the one compiled from the same request with every empty or
\* unrecognized populate entry, every sort request on an unrecognized field and
\* every sort request on an unpopulated relation removed.
C2_SilentOmission ==
    Returned => result = compile(schemaPaths, ReducedRequest)

\* a request that loses a populate entry and a sort request in the reduction,
\* and keeps one of each
C2_Witness ==
    /\ Returned
    /\ "sort" \in DOMAIN options
    /\ Len(ReducedRequest.populate) = 1
    /\ Len(options.populate) = 2
    /\ Len(ReducedRequest.sort.value) = 1
    /\ Len(options.sort.value) = 2

\* ------------------------------------------------------------------
\* C3
\* ------------------------------------------------------------------

\* R is requested bare and no field of R is requested explicitly
BareWithoutFields(R) == R \in Accepted /\ ExplicitFields(R) = {}

\* the statement of C3 as written, for every relation key
C3_AsStated ==
    TreeBuilt =>
        \A R \in Keys :
            BareWithoutFields(R) => NodeExists(R) /\ NodeFields(R) = DirectFields(R)

\* C3 (amended): if a relation path R that is not also a member of
\* relations.selectable appears bare in the accepted list and no path R.f with
\* R.f in relations.selectable appears in it, the node for R has exactly the
\* direct selectable fields of R; when R is also a selectable field path a
\* node for R need not exist, and if it exists it has those fields too.
C3_BareRelationGetsDirectFields ==
    TreeBuilt =>
        \A R \in Keys :
            BareWithoutFields(R) =>
                /\ R \notin Selectable => NodeExists(R)
                /\ NodeExists(R) => NodeFields(R) = DirectFields(R)

\* a bare relation with a nested relation requested next to it got its fields
C3_Witness ==
    /\ TreeBuilt
    /\ \E R \in Keys :
           /\ BareWithoutFields(R)
           /\ HasNestedRelationPath(R)
           /\ NodeExists(R)
           /\ Cardinality(NodeFields(R)) = 2

\* ------------------------------------------------------------------
\* C4
\* ------------------------------------------------------------------

\* C4: if the accepted list holds at least one path R.f with R.f in
\* relations.selectable, the node for R has exactly the explicitly requested
\* fields and is not expanded, whether or not R also appears bare, before or
\* after the explicit entries.
C4_ExplicitFieldsOnly ==
    \A R \in Keys :
        ExplicitFields(R) # {} =>
            /\ TreeBuilt => NodeExists(R) /\ NodeFields(R) = ExplicitFields(R)
            /\ pc = "enrichRelationsWithFields" =>
                   /\ NodeExists(R)
                   /\ NodeFields(R) = ExplicitFields(R)
                   /\ NodeFields(R) =
                          Range(enrichRelationsWithFields(tree, validPopulatePaths,
                                    schemaPaths, relationsWithExplicitFields
                                ).nodes[NodePos(R)].fields)

\* the bare entry comes first and the explicit one after it, and the relation
\* has a direct field that was not requested
C4_Witness ==
    /\ TreeBuilt
    /\ Len(validPopulatePaths) = 2
    /\ IsFieldPathOf(validPopulatePaths[2], validPopulatePaths[1])
    /\ validPopulatePaths[2] \in Selectable
    /\ NodeFields(validPopulatePaths[1]) # DirectFields(validPopulatePaths[1])

\* ------------------------------------------------------------------
\* C5
\* ------------------------------------------------------------------

\* the nodes whose field set the expansion step changes
ExpandedBy(before, after) ==
    {pos \in DOMAIN before.nodes : before.nodes[pos].fields # after.nodes[pos].fields}

TopRelations == IF ObjHas(result, includeKey) THEN ObjGet(result, includeKey) ELSE <<>>

\* neither the selection nor the inclusion of a relation entry, at any depth
\* below it, is an empty object
RECURSIVE NoEmptyPart(_)
NoEmptyPart(entry) ==
    /\ ObjHas(entry, selectKey) => Len(ObjGet(entry, selectKey)) > 0
    /\ ObjHas(entry, includeKey) =>
           /\ Len(ObjGet(entry, includeKey)) > 0
           /\ \A k \in DOMAIN ObjGet(entry, includeKey) :
                  NoEmptyPart(ObjGet(entry, includeKey)[k].v)

\* no relation entry, at any depth, is itself an empty object
RECURSIVE NoEmptyEntry(_)
NoEmptyEntry(entry) ==
    /\ Len(entry) > 0
    /\ ObjHas(entry, includeKey) =>
           \A k \in DOMAIN ObjGet(entry, includeKey) :
               NoEmptyEntry(ObjGet(entry, includeKey)[k].v)

\* C6: no relation node of the compiled output, at any depth below the top
\* level, carries a selection key or an inclusion key whose value is an empty
\* object.
C6_NoEmptySelectionOrInclusion ==
    Returned => \A k \in DOMAIN TopRelations : NoEmptyPart(TopRelations[k].v)

\* a relation reached only on the way to a nested one: its entry has an
\* inclusion and no selection key at all
C6_Witness ==
    /\ Returned
    /\ \E k \in DOMAIN TopRelations :
           /\ ~ObjHas(TopRelations[k].v, selectKey)
           /\ ObjHas(TopRelations[k].v, includeKey)

\* C7: no relation entry of the compiled output is itself an empty object:
\* every entry of every inclusion object carries a selection, a sort mapping
\* or a nested inclusion.
C7_NoEmptyRelationEntry ==
    Returned => \A k \in DOMAIN TopRelations : NoEmptyEntry(TopRelations[k].v)

\* ------------------------------------------------------------------
\* C8
\* ------------------------------------------------------------------

\* C8: the top-level inclusion key is in the output exactly when at least one
\* populate entry is accepted; when none is, the output holds only the root
\* selection and, if there is one, the root sort mapping.
C8_IncludeKeyIffAccepted ==
    Returned =>
        /\ ObjHas(result, includeKey) <=> Len(validPopulatePaths) > 0
        /\ Len(validPopulatePaths) = 0 =>
               /\ Range(ObjKeys(result)) \subseteq {selectKey, sortKey}
               /\ ObjHas(result, selectKey)
               /\ ObjHas(result, sortKey) <=> Len(rootSortObject) > 0

\* populate entries were given, none was accepted, and a root sort is returned
C8_Witness ==
    /\ Returned
    /\ Len(options.populate) > 0
    /\ Len(validPopulatePaths) = 0
    /\ ObjKeys(result) = <<selectKey, sortKey>>

\* ------------------------------------------------------------------
\* C9, C10
\* ------------------------------------------------------------------

RootSelection == ObjGet(result, selectKey)

\* C9: with selectableFields empty the top-level selection holds every
\* root-selectable field under 'returnAll' or with the option omitted, and is
\* the empty object under 'leaveEmpty'.
C9_EmptyRootPolicy ==
    Returned /\ Len(options.selectableFields) = 0 =>
        IF "emptyRootFieldsBehavior" \in DOMAIN options
              /\ options.emptyRootFieldsBehavior = "leaveEmpty"
        THEN RootSelection = <<>>
        ELSE /\ Range(ObjKeys(RootSelection)) = RootSelectable
             /\ \A k \in DOMAIN RootSelection : RootSelection[k].v = TRUE

\* the option is omitted and every root field is selected
C9_Witness ==
    /\ Returned
    /\ Len(options.selectableFields) = 0
    /\ "emptyRootFieldsBehavior" \notin DOMAIN options
    /\ Len(RootSelection) = 2

\* C10: the top-level selection is always present under the select key and
\* its keys are root-selectable; with selectableFields non-empty it holds
\* exactly the requested names, trimmed, that are in root.selectable, each
\* mapped to true.
C10_RootSelection ==
    Returned =>
        /\ ObjHas(result, selectKey)
        /\ Range(ObjKeys(RootSelection)) \subseteq RootSelectable
        /\ \A k \in DOMAIN RootSelection : RootSelection[k].v = TRUE
        /\ Len(options.selectableFields) > 0 =>
               Range(ObjKeys(RootSelection)) =
                   {trim(options.selectableFields[k]) : k \in DOMAIN options.selectableFields}
                       \cap RootSelectable

\* a name with surrounding blanks is selected and an unknown name is left out
C10_Witness ==
    /\ Returned
    /\ \E k \in DOMAIN options.selectableFields :
           /\ options.selectableFields[k] # trim(options.selectableFields[k])
           /\ ObjHas(RootSelection, trim(options.selectableFields[k]))
    /\ \E k \in DOMAIN options.selectableFields :
           trim(options.selectableFields[k]) \notin RootSelectable

\* ------------------------------------------------------------------
\* C11, C12
\* ------------------------------------------------------------------

\* the running request without its sort argument
WithoutSortArgument == [name \in DOMAIN options \ {"sort"} |-> options[name]]

\* a query without its sort mappings, at every depth
RECURSIVE WithoutSortMappings(_)
WithoutSortMappings(query) ==
    LET other(entry) == entry.k # sortKey
        kept == SelectSeq(query, other)
    IN  [j \in DOMAIN kept |->
            IF kept[j].k = includeKey
            THEN [k |-> includeKey,
                  v |-> [r \in DOMAIN kept[j].v |->
                            [k |-> kept[j].v[r].k,
                             v |-> WithoutSortMappings(kept[j].v[r].v)]]]
            ELSE kept[j]]

\* the sort requests of the running call, and those that name a path
SortRequested == Range(sortOptionsOf(options))
NestedSortRequested ==
    {option \in SortRequested : includes(trim(option.field), PATH_SEPARATOR)}

\* the relation path of a nested sort field, as the keys that lead to its
\* node, and the trailing field
RelationOf(option) ==
    LET parts == split(trim(option.field), PATH_SEPARATOR)
    IN  slice0(parts, Len(parts) - 1)
FieldOf(option) ==
    LET parts == split(trim(option.field), PATH_SEPARATOR)
    IN  parts[Len(parts)]

\* the entry of the returned query for the relation at pos, if it has one
RECURSIVE outputNodeFrom(_, _, _)
outputNodeFrom(query, pos, k) ==
    IF k > Len(pos) THEN Present(query)
    ELSE IF ~ObjHas(query, includeKey) THEN Absent
    ELSE IF ~ObjHas(ObjGet(query, includeKey), pos[k]) THEN Absent
    ELSE outputNodeFrom(ObjGet(ObjGet(query, includeKey), pos[k]), pos, k + 1)
OutputNode(pos) == outputNodeFrom(result, pos, 1)

\* the sort mapping of the output entry for the relation at pos
OutputSort(pos) ==
    IF OutputNode(pos).present /\ ObjHas(OutputNode(pos).value, sortKey)
    THEN ObjGet(OutputNode(pos).value, sortKey)
    ELSE <<>>

\* the selection of the output entry for the relation at pos
OutputSelect(pos) ==
    IF OutputNode(pos).present /\ ObjHas(OutputNode(pos).value, selectKey)
    THEN ObjGet(OutputNode(pos).value, selectKey)
    ELSE <<>>

\* C11: sort requests never populate a relation: apart from the sort
\* mappings, the output is the output of the same request without its sort
\* argument (same relation entries, same selected fields); with an empty
\* populate list there is no inclusion key, whatever is sorted on.
C11_SortNeverPopulates ==
    Returned =>
        /\ WithoutSortMappings(result) = compile(schemaPaths, WithoutSortArgument)
        /\ options.populate = <<>> => ~ObjHas(result, includeKey)

\* a sortable field of a relation is sorted on while the tree holds other
\* relations and not that one
C11_Witness ==
    /\ Returned
    /\ \E option \in NestedSortRequested :
           /\ trim(option.field) \in Range(schemaPaths.relations.sortable)
           /\ RelationOf(option) \notin DOMAIN tree.nodes
           /\ Len(validPopulatePaths) > 0

\* C12: the trailing field f of a nested sort request R.f is under the sort
\* key of the output entry of R exactly when the tree has a node for R (and so
\* for every segment of it) and R.f is in relations.sortable; f need not be
\* selected.
C12_NestedSortIffPopulatedAndSortable ==
    Returned =>
        \A option \in NestedSortRequested :
            ObjHas(OutputSort(RelationOf(option)), FieldOf(option))
                <=> /\ RelationOf(option) \in DOMAIN tree.nodes
                    /\ trim(option.field) \in Range(schemaPaths.relations.sortable)

\* a relation is sorted on a field that is not among its selected fields
C12_Witness ==
    /\ Returned
    /\ \E option \in NestedSortRequested :
           /\ ObjHas(OutputSort(RelationOf(option)), FieldOf(option))
           /\ ~ObjHas(OutputSelect(RelationOf(option)), FieldOf(option))

\* ------------------------------------------------------------------
\* C13, C14
\* ------------------------------------------------------------------

RootSortRequested == SortRequested \ NestedSortRequested

\* the top-level sort mapping of the returned query
RootSortMapping == IF ObjHas(result, sortKey) THEN ObjGet(result, sortKey) ELSE <<>>

\* C13: a sort request on a field without separator is in the top-level sort
\* mapping exactly when the trimmed field is in root.sortable, and the output
\* has the sort key exactly when some such request is valid.
C13_RootSortIffSortable ==
    Returned =>
        /\ \A option \in RootSortRequested :
               ObjHas(RootSortMapping, trim(option.field))
                   <=> trim(option.field) \in Range(schemaPaths.root.sortable)
        /\ ObjHas(result, sortKey)
               <=> \E option \in RootSortRequested :
                       trim(option.field) \in Range(schemaPaths.root.sortable)

\* root sort requests were made and none is valid
C13_Witness ==
    /\ Returned
    /\ RootSortRequested # {}
    /\ \A option \in RootSortRequested :
           trim(option.field) \notin Range(schemaPaths.root.sortable)
    /\ ~ObjHas(result, sortKey)

\* the directions written in a query: those of its own sort mapping and those
\* of the entries of its inclusion, at every depth
RECURSIVE DirectionsIn(_)
DirectionsIn(query) ==
    (IF ObjHas(query, sortKey)
     THEN {ObjGet(query, sortKey)[j].v : j \in DOMAIN ObjGet(query, sortKey)}
     ELSE {})
    \cup (IF ObjHas(query, includeKey)
          THEN UNION {DirectionsIn(ObjGet(query, includeKey)[r].v) :
                        r \in DOMAIN ObjGet(query, includeKey)}
          ELSE {})

\* C14: every direction written into the output, at the root or in a
\* relation entry, is 'asc' or 'desc' (a missing or unrecognized direction is
\* emitted as 'asc').
C14_CanonicalDirections ==
    Returned => DirectionsIn(result) \subseteq {SortDirection.ASC, SortDirection.DESC}

\* ------------------------------------------------------------------
\* C15, C16
\* ------------------------------------------------------------------

\* a sort request the compiler accepts: its field is sortable and, for a
\* field of a relation, the relation is in the tree
ValidSort(option) ==
    IF option \in NestedSortRequested
    THEN /\ RelationOf(option) \in DOMAIN tree.nodes
         /\ trim(option.field) \in Range(schemaPaths.relations.sortable)
    ELSE trim(option.field) \in Range(schemaPaths.root.sortable)

\* the sort mapping of the level a request is about
LevelSort(option) ==
    IF option \in NestedSortRequested THEN OutputSort(RelationOf(option))
    ELSE RootSortMapping

\* the field a request names at its level
LevelField(option) ==
    IF option \in NestedSortRequested THEN FieldOf(option) ELSE trim(option.field)

\* the last request of the list that names the same field as the one at k
LastFor(k) ==
    LET list == sortOptionsOf(options)
        same == {j \in DOMAIN list : trim(list[j].field) = trim(list[k].field)}
    IN  list[CHOOSE j \in same : \A i \in same : i <= j]

\* C15: for every valid sort request the level's sort mapping has the field,
\* whatever valid requests for other fields came later, and its direction is
\* the direction of the last request for that field at that level.
C15_LastWinsAndMerges ==
    Returned =>
        \A k \in DOMAIN sortOptionsOf(options) :
            LET option == sortOptionsOf(options)[k]
            IN  ValidSort(option) =>
                    /\ ObjHas(LevelSort(option), LevelField(option))
                    /\ ObjGet(LevelSort(option), LevelField(option))
                           = sortDirectionOf(LastFor(k))

\* a field of a relation is sorted on twice with different directions
C15_Witness ==
    /\ Returned
    /\ \E k \in DOMAIN sortOptionsOf(options) :
           LET option == sortOptionsOf(options)[k]
           IN  /\ option \in NestedSortRequested
               /\ ValidSort(option)
               /\ LastFor(k) # option
               /\ sortDirectionOf(LastFor(k)) # sortDirectionOf(option)

\* the declaration of the relation at pos in a schema declaration
RECURSIVE declarationAt(_, _, _)
declarationAt(declaration, pos, k) ==
    IF k > Len(pos) THEN declaration
    ELSE LET relations == declaration.populate
             r == CHOOSE r \in DOMAIN relations : relations[r].name = pos[k]
         IN  declarationAt(relations[r].schema, pos, k + 1)

\* the declaration a sort request is about: the root's or a relation's
DeclarationFor(option) ==
    IF option \in NestedSortRequested
    THEN declarationAt(schema, RelationOf(option), 1)
    ELSE schema

\* the request names a selectable field of its level
OnSelectable(option) ==
    IF option \in NestedSortRequested
    THEN trim(option.field) \in Selectable
    ELSE trim(option.field) \in RootSelectable

\* the request is about a level the tree has: the root, or a populated relation
OnPopulated(option) ==
    option \in NestedSortRequested => RelationOf(option) \in DOMAIN tree.nodes

\* C16: where the schema declares no sortableFields (at the root, or for a
\* populated relation) every selectable field of that level is accepted as a
\* sort field; where it declares the list, exactly its members are accepted.
C16_SortableDefaultsToSelectable ==
    Returned =>
        \A option \in SortRequested :
            OnPopulated(option) =>
                IF "sortableFields" \in DOMAIN DeclarationFor(option)
                THEN ObjHas(LevelSort(option), LevelField(option))
                         <=> LevelField(option)
                                 \in Range(DeclarationFor(option).sortableFields)
                ELSE OnSelectable(option)
                         => ObjHas(LevelSort(option), LevelField(option))

\* a declared list keeps a selectable field out of the sort mapping
C16_Witness ==
    /\ Returned
    /\ \E option \in SortRequested :
           /\ OnPopulated(option)
           /\ "sortableFields" \in DOMAIN DeclarationFor(option)
           /\ OnSelectable(option)
           /\ ~ObjHas(LevelSort(option), LevelField(option))

\* ------------------------------------------------------------------
\* C17
\* ------------------------------------------------------------------

\* C17: the output of a call depends only on the call's request: it is the
\* query the request compiles to on a new instance of the same schema, and a
\* request the caller has made before, with any other calls in between, gets
\* the output it got the first time.
C17_HistoryIndependent ==
    Returned =>
        /\ result = compile(schemaPaths, options)
        /\ remembered.present /\ remembered.request = options =>
               result = remembered.result

\* the first request is made again after a call with another request, and
\* the call before this one had explicit fields where this one has none
C17_Witness ==
    /\ Returned
    /\ remembered.present
    /\ remembered.request = options
    /\ remembered.between
    /\ Len(validPopulatePaths) > 0
    /\ relationsWithExplicitFields = <<>>

\* ------------------------------------------------------------------
\* C18
\* ------------------------------------------------------------------

\* a tree without the metadata of its nodes
WithoutMetadata(t) ==
    [keys |-> t.keys,
     nodes |-> [pos \in DOMAIN t.nodes |-> [t.nodes[pos] EXCEPT !.metadata = Absent]]]

\* the tree the running call has built from its accepted paths
BuiltTree ==
    IF Len(validPopulatePaths) > 0 THEN process(validPopulatePaths, schemaPaths)
    ELSE EmptyTree

\* C18: no step of compile changes the schema index or the request it was
\* given, and the steps of compileSortOptions work on the tree this call has
\* built and change nothing of it but the metadata of its nodes.
C18_InputsAndIndexUntouched ==
    [][/\ schemaPaths' = schemaPaths
       /\ pc \notin {"idle", "returned"} => options' = options
       /\ pc = "compileSortOptions" =>
              /\ WithoutMetadata(tree) = WithoutMetadata(BuiltTree)
              /\ WithoutMetadata(tree') = WithoutMetadata(tree)]_vars

\* a sort field has been attached to a node that does not select it
C18_Witness ==
    /\ pc = "compileSortOptions"
    /\ \E pos \in DOMAIN tree.nodes :
           /\ tree.nodes[pos].metadata.present
           /\ \E j \in DOMAIN ObjGet(tree.nodes[pos].metadata.value, sortKey) :
                  ~includes(tree.nodes[pos].fields,
                            ObjGet(tree.nodes[pos].metadata.value, sortKey)[j].k)

\* ------------------------------------------------------------------
\* C19
\* ------------------------------------------------------------------

\* the running request without its key names
WithDefaultKeys ==
    [name \in DOMAIN options \ {"selectKey", "includeKey", "sortKey"} |-> options[name]]

\* a query written with the default keys, rewritten with the configured ones
\* at every depth
RECURSIVE Renamed(_)
Renamed(query) ==
    [j \in DOMAIN query |->
        IF query[j].k = DEFAULT_SELECT_KEY THEN [k |-> selectKey, v |-> query[j].v]
        ELSE IF query[j].k = DEFAULT_SORT_KEY THEN [k |-> sortKey, v |-> query[j].v]
        ELSE IF query[j].k = DEFAULT_INCLUDE_KEY
        THEN [k |-> includeKey,
              v |-> [r \in DOMAIN query[j].v |->
                        [k |-> query[j].v[r].k, v |-> Renamed(query[j].v[r].v)]]]
        ELSE query[j]]

\* the keys of a query and of the relation entries below it
RECURSIVE KeysIn(_)
KeysIn(query) ==
    Range(ObjKeys(query))
    \cup (IF ObjHas(query, includeKey)
          THEN UNION {KeysIn(ObjGet(query, includeKey)[r].v) :
                        r \in DOMAIN ObjGet(query, includeKey)}
          ELSE {})

\* C19: the output is written with the configured selectKey, includeKey and
\* sortKey at every level (the defaults when none is given), and equals the
\* output under the default keys with each key renamed at every depth.
C19_KeysRenamedAtEveryDepth ==
    Returned =>
        /\ KeysIn(result) \subseteq {selectKey, includeKey, sortKey}
        /\ "selectKey" \notin DOMAIN options =>
               /\ selectKey = "select"
               /\ includeKey = "include"
               /\ sortKey = "orderBy"
        /\ result = Renamed(compile(schemaPaths, WithDefaultKeys))

\* custom keys, and a relation entry two levels down with a selection and a
\* sort mapping under them
C19_Witness ==
    /\ Returned
    /\ selectKey = "fields" /\ includeKey = "relations" /\ sortKey = "sort"
    /\ OutputNode(<< <<"p">>, <<"s">> >>).present
    /\ {"fields", "sort"} \subseteq Range(ObjKeys(OutputNode(<< <<"p">>, <<"s">> >>).value))

\* ------------------------------------------------------------------
\* C20
\* ------------------------------------------------------------------

NoDuplicates(list) == \A j, k \in DOMAIN list : list[j] = list[k] => j = k

\* a path without its last segment
ParentOf(path) ==
    LET parts == split(path, PATH_SEPARATOR)
    IN  join(slice0(parts, Len(parts) - 1), PATH_SEPARATOR)

\* C20: the index built from a schema declaration has no entry twice in any
\* of its lists, and every relation-selectable path is K.f with K, the path
\* without its last segment, in the relation keys.
C20_IndexDeduplicatedAndAnchored ==
    pc = "idle" =>
        /\ NoDuplicates(schemaPaths.root.selectable)
        /\ NoDuplicates(schemaPaths.root.sortable)
        /\ NoDuplicates(schemaPaths.relations.keys)
        /\ NoDuplicates(schemaPaths.relations.selectable)
        /\ NoDuplicates(schemaPaths.relations.sortable)
        /\ \A path \in Range(schemaPaths.relations.selectable) :
               /\ Len(split(path, PATH_SEPARATOR)) >= 2
               /\ ParentOf(path) \in Range(schemaPaths.relations.keys)

\* the declaration lists a root field twice and a field of the nested
\* relation twice
C20_Witness ==
    /\ pc = "idle"
    /\ ~NoDuplicates(schema.selectableFields)
    /\ ~NoDuplicates(schema.populate[1].schema.populate[1].schema.selectableFields)
    /\ Len(schemaPaths.relations.selectable) >= 2

\* ------------------------------------------------------------------
\* C21
\* ------------------------------------------------------------------

\* the paths of the nodes of the tree, root nodes and descendants
NodePaths == {tree.nodes[pos].path : pos \in DOMAIN tree.nodes}

\* C21: at every step of a call, the path of every node of the tree, root
\* node or descendant, is a relation key of the schema index, and the node
\* sits at the position its path spells.
C21_NodePathsAreRelationKeys ==
    \A pos \in DOMAIN tree.nodes :
        /\ tree.nodes[pos].path \in Keys
        /\ NodePos(tree.nodes[pos].path) = pos

\* a tree with a root node and a node two levels below it, one of its
\* paths naming a field of a nested relation
C21_Witness ==
    /\ pc = "enrichRelationsWithFields"
    /\ \E pos \in DOMAIN tree.nodes : Len(pos) = 3
    /\ \E q \in Accepted \cap Selectable : Len(split(q, PATH_SEPARATOR)) = 3

\* ------------------------------------------------------------------
\* C22
\* ------------------------------------------------------------------

\* constructTreeStructure has run over the whole accepted list
Constructed ==
    pc \in {"enrichRelationsWithFields", "compileSortOptions", "return", "returned"}

\* the prefixes of a path, segment by segment, the whole path included
PrefixesOf(q) ==
    LET parts == split(q, PATH_SEPARATOR)
    IN  {join(SubSeq(parts, 1, k), PATH_SEPARATOR) : k \in 1..Len(parts)}

\* the paths a node could stand for
NodeCandidates == Keys \cup NodePaths \cup UNION {PrefixesOf(q) : q \in Accepted}

\* C22 as stated: after tree construction a node exists for P exactly when
\* some accepted populate path has P, a relation key, as a prefix, the whole
\* path counting as a prefix.
C22_AsStated ==
    Constructed =>
        \A P \in NodeCandidates :
            NodeExists(P) <=> \E q \in Accepted : P \in PrefixesOf(q) \cap Keys

\* C22 amended: after tree construction a node exists for P exactly when P
\* is a relation key and some accepted populate path either continues below
\* P, or is P itself with P not also a selectable field path.
C22_NodeIffReachedAsRelation ==
    Constructed =>
        \A P \in NodeCandidates :
            NodeExists(P) <=>
                /\ P \in Keys
                /\ \E q \in Accepted :
                       \/ q # P /\ P \in PrefixesOf(q)
                       \/ q = P /\ P \notin Selectable

\* a name that is both a field and a relation of p: given as a whole path it
\* creates no node, while its parent, reached as a prefix, and another
\* relation given as a whole path have theirs
C22_Witness ==
    /\ Constructed
    /\ \E P \in Accepted \cap Keys \cap Selectable :
           /\ ~NodeExists(P)
           /\ NodeExists(ParentOf(P))
    /\ \E P \in Accepted \cap Keys : P \notin Selectable /\ NodeExists(P)

\* ------------------------------------------------------------------
\* C23
\* ------------------------------------------------------------------

\* C23: at every step of tree construction and of the implicit expansion
\* (and of every later step of the call), each name f in the fields of a node
\* N is one segment, and N.path.f is a selectable field path of the index:
\* f is a direct field of N's own relation.
C23_FieldsAreDirectSelectable ==
    \A pos \in DOMAIN tree.nodes :
        \A f \in Range(tree.nodes[pos].fields) :
            /\ tree.nodes[pos].path \o <<PATH_SEPARATOR>> \o f \in Selectable
            /\ ~includes(f, PATH_SEPARATOR)
            /\ f \in DirectFields(tree.nodes[pos].path)

\* after the expansion: one node holds a field named in the populate list,
\* and a node given bare, with a sub-relation that has fields of its own, has
\* been expanded
C23_Witness ==
    /\ pc = "compileSortOptions"
    /\ \E pos \in DOMAIN tree.nodes :
           ExplicitFields(tree.nodes[pos].path) # {}
    /\ \E pos \in DOMAIN tree.nodes :
           /\ tree.nodes[pos].path \in Accepted
           /\ ExplicitFields(tree.nodes[pos].path) = {}
           /\ tree.nodes[pos].fields # <<>>
           /\ \E q \in Selectable :
                  /\ startsWith(q, tree.nodes[pos].path \o <<PATH_SEPARATOR>>)
                  /\ ~IsFieldPathOf(q, tree.nodes[pos].path)

\* ------------------------------------------------------------------
\* C24
\* ------------------------------------------------------------------

\* the rearrangements of a list
PermutationsOf(list) ==
    {[j \in DOMAIN list |-> list[f[j]]] : f \in Permutations(DOMAIN list)}

\* what a tree holds, without the order of its keys: the paths of its nodes,
\* each with the set of its fields and the set of its child relations
TreeContent(t) ==
    {[path |-> t.nodes[pos].path,
      fields |-> Range(t.nodes[pos].fields),
      relations |-> Range(t.nodes[pos].relations)] : pos \in DOMAIN t.nodes}

\* C24: the tree the call has built from its accepted list has the same node
\* paths, and on every node the same set of fields, as the tree built from
\* any rearrangement of that list.
C24_TreeContentIgnoresOrder ==
    TreeBuilt =>
        \A q \in PermutationsOf(validPopulatePaths) :
            /\ Range(process(q, schemaPaths).keys) = Range(tree.keys)
            /\ TreeContent(process(q, schemaPaths)) = TreeContent(tree)

\* two different accepted paths, one of them a name that is both a field and
\* a relation of its parent, the other creating the node of that relation
C24_Witness ==
    /\ TreeBuilt
    /\ Len(validPopulatePaths) = 2
    /\ validPopulatePaths[1] # validPopulatePaths[2]
    /\ \E P \in Accepted \cap Keys \cap Selectable :
           /\ NodeExists(P)
           /\ P = validPopulatePaths[2]

\* ------------------------------------------------------------------
\* C25
\* ------------------------------------------------------------------

\* the accepted path at index k makes, or goes through, the relation node P
ReachesAt(k, P) ==
    LET q == validPopulatePaths[k]
    IN  \/ q # P /\ P \in PrefixesOf(q)
        \/ q = P /\ P \notin Selectable

\* the index of the first accepted path that reaches relation P, 0 if none
FirstReached(P) ==
    IF \E k \in DOMAIN validPopulatePaths : ReachesAt(k, P)
    THEN CHOOSE k \in DOMAIN validPopulatePaths :
             /\ ReachesAt(k, P)
             /\ \A j \in 1..(k - 1) : ~ReachesAt(j, P)
    ELSE 0

\* the index of the first occurrence of path q in the accepted list, 0 if none
FirstNamed(q) ==
    IF \E k \in DOMAIN validPopulatePaths : validPopulatePaths[k] = q
    THEN CHOOSE k \in DOMAIN validPopulatePaths :
             /\ validPopulatePaths[k] = q
             /\ \A j \in 1..(k - 1) : validPopulatePaths[j] # q
    ELSE 0

\* the keys of the inclusion object of the output entry at pos (the top level
\* at the empty position), in output order
IncludeKeysAt(pos) ==
    IF OutputNode(pos).present /\ ObjHas(OutputNode(pos).value, includeKey)
    THEN ObjKeys(ObjGet(OutputNode(pos).value, includeKey))
    ELSE <<>>

IntermediateOnly(pos) ==
    /\ tree.nodes[pos].path \notin Accepted
    /\ ExplicitFields(tree.nodes[pos].path) = {}

\* C26: a relation node reached only as an intermediate segment of accepted
\* paths has no fields, and its entry in the returned query has no selection
\* key: it has the inclusion key, and besides it at most the sort key.
C26_IntermediateNodeSelectsNothing ==
    Returned =>
        \A pos \in DOMAIN tree.nodes :
            IntermediateOnly(pos) =>
                /\ tree.nodes[pos].fields = <<>>
                /\ OutputNode(pos).present
                /\ ~ObjHas(OutputNode(pos).value, selectKey)
                /\ ObjHas(OutputNode(pos).value, includeKey)
                /\ Range(ObjKeys(OutputNode(pos).value)) \subseteq {includeKey, sortKey}

\* a relation with selectable fields of its own, reached only on the way to
\* a relation below it, and sorted on: its entry has the inclusion and the
\* sort mapping
C26_Witness ==
    /\ Returned
    /\ \E pos \in DOMAIN tree.nodes :
           /\ IntermediateOnly(pos)
           /\ DirectFields(tree.nodes[pos].path) # {}
           /\ Range(ObjKeys(OutputNode(pos).value)) = {includeKey, sortKey}

\* ------------------------------------------------------------------
\* C27
\* ------------------------------------------------------------------

\* the running request with the repeated populate entries removed, first
\* occurrences kept
WithoutRepeats == [options EXCEPT !.populate = dedupe(@)]

\* C27: the returned query is the query compiled from the same request with
\* every repeated populate entry removed.
C27_RepeatsHaveNoEffect ==
    Returned => result = compile(schemaPaths, WithoutRepeats)

\* an accepted path occurs twice in the populate list with another accepted
\* entry between the two occurrences
C27_Witness ==
    /\ Returned
    /\ \E j, k \in DOMAIN validPopulatePaths :
           /\ j + 1 < k
           /\ validPopulatePaths[j] = validPopulatePaths[k]
           /\ validPopulatePaths[j + 1] # validPopulatePaths[j]
    /\ ObjHas(result, includeKey)

\* ------------------------------------------------------------------
\* C28
\* ------------------------------------------------------------------

\* the running request under the given empty-root policy
UnderPolicy(behavior) == [emptyRootFieldsBehavior |-> behavior] @@ options

\* C28: with a non-empty selectableFields list the empty-root policy plays no
\* part: the returned query is the same under 'returnAll' and 'leaveEmpty',
\* and when none of the names is root-selectable the top-level selection is
\* the empty object.
C28_PolicyOnlyForEmptyList ==
    Returned /\ Len(options.selectableFields) > 0 =>
        /\ \A behavior \in {"returnAll", "leaveEmpty"} :
               result = compile(schemaPaths, UnderPolicy(behavior))
        /\ (\A k \in DOMAIN options.selectableFields :
                trim(options.selectableFields[k]) \notin RootSelectable)
               => RootSelection = <<>>

\* 'returnAll' is asked for, the schema has root-selectable fields, and the
\* only names requested are unknown ones
C28_Witness ==
    /\ Returned
    /\ "emptyRootFieldsBehavior" \in DOMAIN options
    /\ options.emptyRootFieldsBehavior = "returnAll"
    /\ RootSelectable # {}
    /\ Len(options.selectableFields) > 0
    /\ \A k \in DOMAIN options.selectableFields :
           trim(options.selectableFields[k]) \notin RootSelectable
    /\ RootSelection = <<>>

\* ------------------------------------------------------------------
\* C29
\* ------------------------------------------------------------------

\* C29: when at least one populate path is accepted, the constructed tree
\* has a root node, and the returned query has under the inclusion key a
\* non-empty object with one entry per root node of the tree: the empty
\* object set first by the merge does not survive.
C29_AcceptedPathGivesInclusion ==
    Len(validPopulatePaths) > 0 =>
        /\ Constructed => Len(tree.keys) > 0
        /\ Returned =>
               /\ ObjHas(result, includeKey)
               /\ ObjGet(result, includeKey) # <<>>
               /\ ObjKeys(ObjGet(result, includeKey)) = tree.keys

\* one accepted path of a single part next to a rejected entry: the
\* inclusion object has the one relation
C29_Witness ==
    /\ Returned
    /\ Len(validPopulatePaths) = 1
    /\ Len(options.populate) > 1
    /\ Len(NodePos(validPopulatePaths[1])) = 1
    /\ Len(TopRelations) = 1

=============================================================================
